---- MODULE Spec2Model ----
(***************************************************************************)
(* Model of copper.core.set.Dataset (src/copper/core/set.py): a pandas     *)
(* DataFrame wrapped with two per-column metadata Series, `role` and       *)
(* `type`.                                                                 *)
(*                                                                         *)
(* A DataFrame is a record                                                 *)
(*   [columns : sequence of distinct column names,                         *)
(*    nrows   : number of rows,                                            *)
(*    dtypes  : column name -> "int64" | "float64" | "object",            *)
(*    data    : column name -> sequence of nrows cells]                    *)
(* A cell is a record [k, n, d, s]: k = "na" is a missing entry (NaN),     *)
(* k = "num" is the number n/d, k = "str" is the text s.                   *)
(* A Series keyed by column name (role, type) is a function on the set of  *)
(* column names.  A Dataset built without data (frame = None) supports no  *)
(* operation but set_frame, which does not read the previous state, so     *)
(* the model starts from Dataset(data) for a DataFrame data.               *)
(***************************************************************************)
EXTENDS Integers, Sequences, FiniteSets, TLC

VARIABLES frame, columns, role, type, result, assigned, overrides

vars == <<frame, columns, role, type, result, assigned, overrides>>

(* ------------------------------ bounds -------------------------------- *)
MaxCols == 2
MaxRows == 2
MaxViewRows == 1
MaxOverrides == 1
MaxFillCells == 3

(* ----------------------------- constants ------------------------------ *)
NUMBER == "Number"
CATEGORY == "Category"
ID == "ID"
INPUT == "Input"
TARGET == "Target"
REJECTED == "Rejected"

Roles == {ID, INPUT, TARGET, REJECTED}
Types == {NUMBER, CATEGORY}
None == "None"
NaN == "NaN"

(* ------------------------------ inputs -------------------------------- *)
NA == [k |-> "na", n |-> 0, d |-> 1, s |-> ""]
Num(a, b) == [k |-> "num", n |-> a, d |-> b, s |-> ""]
Str(x) == [k |-> "str", n |-> 0, d |-> 1, s |-> x]

Range(f) == {f[i] : i \in DOMAIN f}

(* Sequences of distinct names, of length 1..n. *)
NameSeqs(names, n) ==
    UNION {{q \in [1..k -> names] : \A i, j \in 1..k : i # j => q[i] # q[j]} : k \in 1..n}

(* What a column of nr rows can hold: an int64 column has no missing entry. *)
ColumnsOf(nr, nums, strs) ==
    {[dtype |-> "int64", values |-> v] : v \in [1..nr -> {Num(x, 1) : x \in nums}]}
    \cup {[dtype |-> "float64", values |-> v] :
             v \in [1..nr -> {Num(x, 1) : x \in nums} \cup {NA}]}
    \cup {[dtype |-> "object", values |-> v] :
             v \in [1..nr -> {Str(x) : x \in strs} \cup {NA}]}

(* The DataFrame of the columns q, nr rows and the given content. *)
DataFrame(q, nr, content) ==
    [columns |-> q, nrows |-> nr,
     dtypes |-> [c \in Range(q) |-> content[c].dtype],
     data |-> [c \in Range(q) |-> content[c].values]]

(* The column lists of at most nc names that, with nr rows, stay within    *)
(* the number of cells.                                                    *)
ColumnLists(names, nc, nr, cells) == {q \in NameSeqs(names, nc) : Len(q) * nr <= cells}

LoadNames == {"ID", "Target", "target", "TARGET", "age"}
ViewNames == {"Target", "age"}
FillNames == {"Target", "target"}
ReloadNames == {"ID", "target"}

(* The estimates imputeKNN may give. *)
KnnEstimates == {Num(1, 1), Num(3, 1)}

(* ------------------------------- LOAD --------------------------------- *)
(* str.lower() on the column names in use. *)
lower(s) ==
    CASE s = "ID" -> "id"
      [] s = "Target" -> "target"
      [] s = "TARGET" -> "target"
      [] OTHER -> s

(* The identifier without lower(): only the exact name matches. *)
_id_identifier_cased(col_name) == col_name \in {"id"}

_id_identifier(col_name) == lower(col_name) \in {"id"}

_target_identifier(col_name) == lower(col_name) \in {"target"}

(* DataFrame.count() for one column: the number of non-missing entries. *)
count(df, c) == Cardinality({i \in 1..df.nrows : df.data[c][i].k # "na"})

(* percent_missing(): 1 - count/len as the fraction num/den; den = 0 is    *)
(* the NaN that 0/0 gives for a frame without rows.                        *)
percent_missing(df) ==
    [c \in Range(df.columns) |-> [num |-> df.nrows - count(df, c), den |-> df.nrows]]

(* x >= 0.5 where the code has x > 0.5. *)
GtHalf_geq(x) == x.den > 0 /\ 2 * x.num >= x.den

(* x > 0.5 for a fraction; NaN > 0.5 is False. *)
GtHalf(x) == x.den > 0 /\ 2 * x.num > x.den

(* Series[labels] = value *)
Assign(series, labels, value) ==
    [c \in DOMAIN series |-> IF c \in labels THEN value ELSE series[c]]

(* fillna without the assignment of its result: the Series stays as it was. *)
FillSeries_dropped(series, value) == series

(* Series.fillna(value) on a Series of strings *)
FillSeries(series, value) ==
    [c \in DOMAIN series |-> IF series[c] = NaN THEN value ELSE series[c]]

id_cols(df) == SelectSeq(df.columns, _id_identifier)

target_cols(df) == SelectSeq(df.columns, _target_identifier)

rejected(df) == {c \in Range(df.columns) : GtHalf(percent_missing(df)[c])}

number_cols(df) == {c \in Range(df.columns) : df.dtypes[c] \in {"int64", "float64"}}

(* The classification with every target-named column made Target. *)
ClassifyRole_all_targets(df) ==
    LET r0 == [c \in Range(df.columns) |-> NaN]
        r1 == IF Len(id_cols(df)) > 0 THEN Assign(r0, Range(id_cols(df)), "ID") ELSE r0
        tc == target_cols(df)
        r2 == IF Len(tc) > 0 THEN Assign(r1, Range(tc), TARGET) ELSE r1
        r3 == Assign(r2, rejected(df), REJECTED)
    IN  FillSeries(r3, INPUT)

(* The role Series set_frame computes (lines 85-101). *)
ClassifyRole(df) ==
    LET r0 == [c \in Range(df.columns) |-> NaN]
        r1 == IF Len(id_cols(df)) > 0 THEN Assign(r0, Range(id_cols(df)), "ID") ELSE r0
        tc == target_cols(df)
        r2 == IF Len(tc) > 0
              THEN Assign(Assign(r1, {tc[1]}, TARGET), Range(Tail(tc)), REJECTED)
              ELSE r1
        r3 == Assign(r2, rejected(df), REJECTED)
    IN  FillSeries(r3, INPUT)

(* The type Series set_frame computes (lines 86, 104-107). *)
ClassifyType(df) ==
    LET t0 == [c \in Range(df.columns) |-> NaN]
        t1 == Assign(t0, number_cols(df), NUMBER)
    IN  FillSeries(t1, CATEGORY)

NoResult == [op |-> "none", args |-> <<>>, err |-> "", val |-> <<>>]

(* set_frame that keeps the role and type a column of the same name had. *)
set_frame_keep(dataframe) ==
    /\ frame' = dataframe
    /\ columns' = dataframe.columns
    /\ role' = [c \in Range(dataframe.columns) |->
                   IF c \in DOMAIN role THEN role[c] ELSE ClassifyRole(dataframe)[c]]
    /\ type' = [c \in Range(dataframe.columns) |->
                   IF c \in DOMAIN type THEN type[c] ELSE ClassifyType(dataframe)[c]]
    /\ result' = NoResult
    /\ assigned' = dataframe
    /\ overrides' = <<>>

set_frame(dataframe) ==
    /\ frame' = dataframe
    /\ columns' = dataframe.columns
    /\ role' = ClassifyRole(dataframe)
    /\ type' = ClassifyType(dataframe)
    /\ result' = NoResult
    /\ assigned' = dataframe
    /\ overrides' = <<>>

(* Dataset(data) for a DataFrame data: __init__ calls set_frame. *)
Dataset(data) ==
    /\ frame = data
    /\ columns = data.columns
    /\ role = ClassifyRole(data)
    /\ type = ClassifyType(data)
    /\ result = NoResult
    /\ assigned = data
    /\ overrides = <<>>

(* Dataset(data) for every table of at most nc columns, nrmax rows and    *)
(* nc * nr <= cells.                                                       *)
Construct(names, nums, strs, nc, nrmax, cells) ==
    \E nr \in 0..nrmax :
        \E q \in ColumnLists(names, nc, nr, cells) :
            \E content \in [Range(q) -> ColumnsOf(nr, nums, strs)] :
                Dataset(DataFrame(q, nr, content))

(* Tables for the derived views: few rows, one value of each kind. *)
Init == Construct(ViewNames, {1}, {"a"}, MaxCols, MaxViewRows, MaxCols * MaxViewRows)

(* Tables for the classification: every shape, one value of each kind. *)
InitLoad == Construct(LoadNames, {1}, {"a"}, MaxCols, MaxRows, MaxCols * MaxRows)

(* Tables for the imputation: few cells, two values of each kind. *)
InitFill == Construct(FillNames, {1, 3}, {"a", "b"}, MaxFillCells, MaxFillCells, MaxFillCells)

Idle == result.op = "none"

Value(op, args, val) == [op |-> op, args |-> args, err |-> "", val |-> val]
Raise(op, args, err) == [op |-> op, args |-> args, err |-> err, val |-> <<>>]

(* ---------------------------- PROPERTIES ------------------------------ *)
(* array[mask]: the elements of a numpy array at the positions where the   *)
(* boolean mask is True.                                                   *)
RECURSIVE MaskSelect(_, _)
MaskSelect(array, mask) ==
    IF array = <<>> THEN <<>>
    ELSE (IF Head(mask) THEN <<Head(array)>> ELSE <<>>)
         \o MaskSelect(Tail(array), Tail(mask))

(* frame[cols]: the DataFrame restricted to the listed columns, in that order. *)
Project(df, cols) ==
    [columns |-> cols, nrows |-> df.nrows,
     dtypes |-> [c \in Range(cols) |-> df.dtypes[c]],
     data |-> [c \in Range(cols) |-> df.data[c]]]

(* `col in array` for a numpy array of names *)
In(col, array) == \E i \in 1..Len(array) : array[i] = col

(* The filter with `or` between the two memberships. *)
filter_cols_any(role_, type_) ==
    LET role_cols == IF role_ # None
                     THEN MaskSelect(columns, [i \in 1..Len(columns) |-> role[columns[i]] = role_])
                     ELSE columns
        type_cols == IF type_ # None
                     THEN MaskSelect(columns, [i \in 1..Len(columns) |-> type[columns[i]] = type_])
                     ELSE columns
        Keep(col) == In(col, role_cols) \/ In(col, type_cols)
    IN  SelectSeq(columns, Keep)

filter_cols(role_, type_) ==
    LET role_cols == IF role_ # None
                     THEN MaskSelect(columns, [i \in 1..Len(columns) |-> role[columns[i]] = role_])
                     ELSE columns
        type_cols == IF type_ # None
                     THEN MaskSelect(columns, [i \in 1..Len(columns) |-> type[columns[i]] = type_])
                     ELSE columns
        Keep(col) == In(col, role_cols) /\ In(col, type_cols)
    IN  SelectSeq(columns, Keep)

filter(role_, type_, columns_) ==
    IF columns_ THEN filter_cols(role_, type_)
    ELSE Project(frame, filter_cols(role_, type_))

Numeric(dtype) == dtype \in {"int64", "float64"}

(* copper.transform.category2number: the distinct observed levels of a     *)
(* column coded 0, 1, ... in first-occurrence order; a numeric column      *)
(* passes through, a missing entry stays missing.                          *)
category2number(dtype, values) ==
    IF Numeric(dtype) THEN values
    ELSE LET First(i) == \A j \in 1..(i - 1) : values[j] # values[i]
             Code(i) == Cardinality({j \in 1..(i - 1) :
                            values[j].k # "na" /\ First(j) /\ values[j] # values[i]})
         IN  [i \in DOMAIN values |->
                 IF values[i].k = "na" THEN NA ELSE Num(Code(i), 1)]

get_inputs ==
    LET cols == filter(INPUT, None, TRUE)
        Branch(col) ==
            IF type[col] = NUMBER /\ Numeric(frame.dtypes[col]) THEN "join"
            ELSE IF type[col] = NUMBER /\ frame.dtypes[col] = "object" THEN "to_number"
            ELSE IF type[col] = CATEGORY /\ Numeric(frame.dtypes[col]) THEN "category2ml"
            ELSE IF type[col] = CATEGORY /\ frame.dtypes[col] = "object" THEN "category2ml"
            ELSE "pass"
        Joined(col) == Branch(col) # "pass"
    IN  Value("inputs", <<>>,
              [i \in 1..Len(SelectSeq(cols, Joined)) |->
                  <<SelectSeq(cols, Joined)[i], Branch(SelectSeq(cols, Joined)[i])>>])

(* get_target that takes the first column when none has role Target. *)
get_target_first ==
    LET cols == IF Len(filter(TARGET, None, TRUE)) = 0 THEN filter(None, None, TRUE)
                ELSE filter(TARGET, None, TRUE)
    IN  IF Len(cols) = 0 THEN Raise("target", <<>>, "IndexError")
        ELSE Value("target", <<>>,
                   [name |-> "Target", col |-> cols[1],
                    values |-> category2number(frame.dtypes[cols[1]], frame.data[cols[1]])])

get_target ==
    LET cols == filter(TARGET, None, TRUE)
    IN  IF Len(cols) = 0 THEN Raise("target", <<>>, "IndexError")
        ELSE Value("target", <<>>,
                   [name |-> "Target", col |-> cols[1],
                    values |-> category2number(frame.dtypes[cols[1]], frame.data[cols[1]])])

get_metadata ==
    Value("metadata", <<>>,
          [i \in 1..Len(columns) |->
              [col |-> columns[i], Role |-> role[columns[i]], Type |-> type[columns[i]],
               dtype |-> frame.dtypes[columns[i]]]])

get_numbers == Value("numbers", <<>>, filter(None, NUMBER, FALSE))

get_categories == Value("categories", <<>>, filter(None, CATEGORY, FALSE))

Filter ==
    /\ Idle
    /\ \E role_ \in Roles \cup {None}, type_ \in Types \cup {None}, columns_ \in BOOLEAN :
        result' = Value("filter", <<role_, type_, columns_>>, filter(role_, type_, columns_))
    /\ UNCHANGED <<frame, columns, role, type, assigned, overrides>>

GetInputs ==
    /\ Idle
    /\ result' = get_inputs
    /\ UNCHANGED <<frame, columns, role, type, assigned, overrides>>

GetTarget ==
    /\ Idle
    /\ result' = get_target
    /\ UNCHANGED <<frame, columns, role, type, assigned, overrides>>

GetMetadata ==
    /\ Idle
    /\ result' = get_metadata
    /\ UNCHANGED <<frame, columns, role, type, assigned, overrides>>

GetNumbers ==
    /\ Idle
    /\ result' = get_numbers
    /\ UNCHANGED <<frame, columns, role, type, assigned, overrides>>

GetCategories ==
    /\ Idle
    /\ result' = get_categories
    /\ UNCHANGED <<frame, columns, role, type, assigned, overrides>>

(* ------------------------------- STATS -------------------------------- *)
(* Comparison of two fractions num/den with den > 0. *)
FracLeq(x, y) == x.num * y.den <= y.num * x.den

(* Series.order(ascending): every listing of the Series sorted by value,   *)
(* NaN (den = 0) last; the order among equal values is left to the sort.   *)
order(series, ascending) ==
    LET n == Cardinality(DOMAIN series)
        IsNaN(c) == series[c].den = 0
        Before(a, b) ==
            \/ IsNaN(b)
            \/ /\ ~IsNaN(a)
               /\ IF ascending THEN FracLeq(series[a], series[b])
                  ELSE FracLeq(series[b], series[a])
    IN  {[i \in 1..n |-> <<q[i], series[q[i]]>>] :
            q \in {p \in [1..n -> DOMAIN series] :
                      /\ \A i, j \in 1..n : i # j => p[i] # p[j]
                      /\ \A i, j \in 1..n : i < j => Before(p[i], p[j])}}

(* len(frame[col].value_counts()): the number of distinct observed values *)
nunique(df, c) == Cardinality({df.data[c][i] : i \in 1..df.nrows} \ {NA})

unique_values_series(df) ==
    [c \in Range(df.columns) |-> [num |-> nunique(df, c), den |-> 1]]

UniqueValues ==
    /\ Idle
    /\ \E ascending \in BOOLEAN :
        \E ans \in order(unique_values_series(frame), ascending) :
            result' = Value("unique_values", <<ascending>>, ans)
    /\ UNCHANGED <<frame, columns, role, type, assigned, overrides>>

PercentMissing ==
    /\ Idle
    /\ \E ascending \in BOOLEAN :
        \E ans \in order(percent_missing(frame), ascending) :
            result' = Value("percent_missing", <<ascending>>, ans)
    /\ UNCHANGED <<frame, columns, role, type, assigned, overrides>>

(* The `cols` argument of variance_explained and fillna: None, or a list   *)
(* of column names.                                                        *)
NoCols == [none |-> TRUE, list |-> <<>>]
ColList(q) == [none |-> FALSE, list |-> q]

ColsArgs ==
    {NoCols}
    \cup {ColList(<<c>>) : c \in Range(columns)}
    \cup {ColList(q) : q \in {p \in [1..Len(columns) -> Range(columns)] :
                                  \A i, j \in 1..Len(columns) : i # j => p[i] # p[j]}}

(* The columns of the matrix variance_explained hands to np.linalg.svd. *)
variance_explained_frame(cols) ==
    IF cols.none THEN filter(INPUT, NUMBER, FALSE)
    ELSE frame

(* The docstring's conditions on the matrix (no missing value, dtype int   *)
(* or float), and the rows and columns np.linalg.svd needs.                *)
Decomposable(df) ==
    /\ df.nrows > 0
    /\ Len(df.columns) > 0
    /\ \A c \in Range(df.columns) :
          Numeric(df.dtypes[c]) /\ \A i \in 1..df.nrows : df.data[c][i].k = "num"

(* The value is the list of the columns of the decomposed matrix; the      *)
(* decomposition itself is numpy's.                                        *)
VarianceExplained ==
    /\ Idle
    /\ \E cols \in ColsArgs :
        /\ Decomposable(variance_explained_frame(cols))
        /\ result' = Value("variance_explained", cols, variance_explained_frame(cols).columns)
    /\ UNCHANGED <<frame, columns, role, type, assigned, overrides>>

(* ------------------------------ fillna -------------------------------- *)
RECURSIVE GCD(_, _)
GCD(a, b) == IF b = 0 THEN a ELSE GCD(b, a % b)

Abs(a) == IF a < 0 THEN -a ELSE a

Reduce(a, b) == LET g == GCD(Abs(a), Abs(b)) IN Num(a \div g, b \div g)

RECURSIVE Sum(_)
Sum(cells) ==
    IF cells = <<>> THEN Num(0, 1)
    ELSE LET h == Head(cells)
             t == Sum(Tail(cells))
         IN  IF h.k = "na" THEN t
             ELSE Reduce(h.n * t.d + t.n * h.d, h.d * t.d)

Observed(values) == {i \in DOMAIN values : values[i].k # "na"}

(* The mean over all the rows, the missing ones counted in the divisor. *)
mean_len(values) ==
    LET cnt == Cardinality(Observed(values))
        sum == Sum(values)
    IN  IF cnt = 0 THEN NA ELSE Reduce(sum.n, sum.d * Len(values))

(* Series.mean() of a numeric column: missing entries are skipped; NaN     *)
(* when nothing is observed.                                               *)
mean(values) ==
    LET cnt == Cardinality(Observed(values))
        sum == Sum(values)
    IN  IF cnt = 0 THEN NA ELSE Reduce(sum.n, sum.d * cnt)

(* Series.value_counts().index[0]: a value observed most often; which one  *)
(* among several is left to the sort of value_counts.                      *)
Occurrences(values, v) == Cardinality({i \in DOMAIN values : values[i] = v})

modes(values) ==
    {v \in Range(values) \ {NA} :
        \A w \in Range(values) \ {NA} : Occurrences(values, w) <= Occurrences(values, v)}

(* Series.fillna(value=value): fillna(NaN) leaves the missing entries. *)
fill(values, value) ==
    [i \in DOMAIN values |-> IF values[i].k = "na" THEN value ELSE values[i]]

SetColumn(df, col, values) ==
    [df EXCEPT !.data = [c \in DOMAIN df.data |-> IF c = col THEN values ELSE df.data[c]]]

Ok(df) == [frame |-> df, err |-> ""]
Failed(df, err) == [frame |-> df, err |-> err]

(* One pass of the mean/mode loop (lines 352-358) for one column: the      *)
(* frames it can leave, or the exception that ends the call.               *)
fill_mean_col(df, col) ==
    LET values == df.data[col]
    IN  IF type[col] = NUMBER
        THEN IF \E i \in DOMAIN values : values[i].k = "str"
             THEN {Failed(df, "TypeError")}
             ELSE IF df.dtypes[col] = "object"
             THEN {Failed(df, "TypeError"), Ok(df)}
             ELSE {Ok(SetColumn(df, col, fill(values, mean(values))))}
        ELSE IF modes(values) = {}
             THEN {Failed(df, "IndexError")}
             ELSE {Ok(SetColumn(df, col, fill(values, v))) : v \in modes(values)}

(* copper.r.imputeKNN: a table of the same shape with every missing        *)
(* numeric entry filled with an estimate; everything else as it was.       *)
imputeKNN(df) ==
    {[df EXCEPT !.data = d] :
        d \in {e \in [DOMAIN df.data ->
                        [1..df.nrows -> KnnEstimates \cup UNION {Range(df.data[c]) : c \in DOMAIN df.data}]] :
                  \A c \in DOMAIN df.data : \A i \in 1..df.nrows :
                      IF Numeric(df.dtypes[c]) /\ df.data[c][i].k = "na"
                      THEN e[c][i] \in KnnEstimates
                      ELSE e[c][i] = df.data[c][i]}}

fill_knn_col(df, col) ==
    {Ok(SetColumn(df, col, imputed.data[col])) : imputed \in imputeKNN(df)}

RECURSIVE fill_loop(_, _, _)
fill_loop(df, cols, method) ==
    IF cols = <<>> THEN {Ok(df)}
    ELSE UNION {IF o.err # "" THEN {o} ELSE fill_loop(o.frame, Tail(cols), method) :
                   o \in IF method = "knn" THEN fill_knn_col(df, Head(cols))
                         ELSE fill_mean_col(df, Head(cols))}

(* fillna that treats every method but knn as mean. *)
fillna_default_mean(cols, method) ==
    LET cols_ == IF cols.none THEN columns ELSE cols.list
    IN  IF method = "knn" THEN fill_loop(frame, cols_, method)
        ELSE fill_loop(frame, cols_, "mean")

(* fillna(cols, method): the outcomes of the whole call. *)
fillna(cols, method) ==
    LET cols_ == IF cols.none THEN columns ELSE cols.list
    IN  IF method = "mean" \/ method = "mode" THEN fill_loop(frame, cols_, method)
        ELSE IF method = "knn" THEN fill_loop(frame, cols_, method)
        ELSE {Ok(frame)}

Methods == {"mean", "mode", "knn", "typo"}

Fillna ==
    /\ Idle
    /\ \E cols \in ColsArgs, method \in Methods :
        \E o \in fillna(cols, method) :
            /\ frame' = o.frame
            /\ result' = [op |-> "fillna", args |-> <<cols, method>>, err |-> o.err,
                           val |-> [frame |-> frame, role |-> role, type |-> type]]
    /\ UNCHANGED <<columns, role, type, assigned, overrides>>

(* A Dataset in use is given a table anew: one column of one row. *)
SetFrame ==
    /\ Idle
    /\ \E nr \in {1} :
        \E q \in ColumnLists(ReloadNames, 1, nr, 1) :
            \E content \in [Range(q) -> ColumnsOf(nr, {1}, {"a"})] :
                set_frame(DataFrame(q, nr, content))

(* dataset.role[col] = value, dataset.type[col] = value (the caller's      *)
(* override of the metadata, as in the module's example).                  *)
SetRole ==
    /\ Idle
    /\ Len(overrides) < MaxOverrides
    /\ \E col \in Range(columns), value \in Roles :
        /\ role' = Assign(role, {col}, value)
        /\ overrides' = Append(overrides, <<"role", col, value>>)
    /\ UNCHANGED <<frame, columns, type, result, assigned>>

SetType ==
    /\ Idle
    /\ Len(overrides) < MaxOverrides
    /\ \E col \in Range(columns), value \in Types :
        /\ type' = Assign(type, {col}, value)
        /\ overrides' = Append(overrides, <<"type", col, value>>)
    /\ UNCHANGED <<frame, columns, role, result, assigned>>

(* The caller takes the returned value (or the exception) before its next call. *)
Return ==
    /\ ~Idle
    /\ result' = NoResult
    /\ UNCHANGED <<frame, columns, role, type, assigned, overrides>>

Next ==
    \/ SetFrame
    \/ SetRole
    \/ SetType
    \/ Filter
    \/ GetInputs
    \/ GetTarget
    \/ GetMetadata
    \/ GetNumbers
    \/ GetCategories
    \/ UniqueValues
    \/ PercentMissing
    \/ VarianceExplained
    \/ Return

Spec == Init /\ [][Next]_vars

(* Table assignment alone. *)
SpecLoad == InitLoad /\ [][SetFrame]_vars

(* Imputation, after an override of the types. *)
NextFill ==
    \/ SetType
    \/ Fillna
    \/ Return

SpecFill == InitFill /\ [][NextFill]_vars

(* ============================== claims ================================ *)
(* The number of missing entries of a column. *)
Missing(df, c) == Cardinality({i \in 1..df.nrows : df.data[c][i] = NA})

MostlyMissing(df, c) == 2 * Missing(df, c) > df.nrows

(* c is named like a target and so is a column before it. *)
LaterTarget(c) ==
    \E i, j \in 1..Len(columns) :
        /\ i < j
        /\ columns[j] = c
        /\ lower(columns[i]) = "target"
        /\ lower(c) = "target"

FirstTarget(c) == lower(c) = "target" /\ ~LaterTarget(c)

(* C1: after set_frame the keys of role and of type are exactly the        *)
(* columns of the table, and every column has one role out of ID, Input,   *)
(* Target, Rejected and one type out of Number, Category.                  *)
C1_KeysAreColumns ==
    /\ columns = frame.columns
    /\ DOMAIN role = Range(frame.columns)
    /\ DOMAIN type = Range(frame.columns)
    /\ \A c \in Range(frame.columns) : role[c] \in Roles /\ type[c] \in Types

C1_Witness ==
    /\ Len(columns) = MaxCols
    /\ \E c \in Range(columns) : role[c] = INPUT /\ type[c] = CATEGORY
    /\ \E c \in Range(columns) : role[c] = REJECTED /\ type[c] = NUMBER

(* C2: after set_frame a column with more than half of its entries missing *)
(* is Rejected, whatever its name; a column with half of them missing or   *)
(* fewer is Rejected only as a second or later target-named column.        *)
C2_MostlyMissingRejected ==
    \A c \in Range(columns) :
        /\ MostlyMissing(frame, c) => role[c] = REJECTED
        /\ (~MostlyMissing(frame, c) /\ role[c] = REJECTED) => LaterTarget(c)

C2_Witness ==
    /\ \E c \in Range(columns) :
        /\ lower(c) \in {"id", "target"}
        /\ MostlyMissing(frame, c)
        /\ role[c] = REJECTED
    /\ \E c \in Range(columns) :
        /\ frame.nrows > 0
        /\ 2 * Missing(frame, c) = frame.nrows
        /\ role[c] # REJECTED

(* C3 as stated: after set_frame a column named id (in any case) has role  *)
(* ID, whatever its content.                                               *)
C3_IdAlwaysIdentifier ==
    \A c \in Range(columns) : lower(c) = "id" => role[c] = ID

(* C3 as amended: after set_frame a column named id (in any case) has role *)
(* ID unless more than half of its entries are missing, and then it has    *)
(* role Rejected.                                                          *)
C3_IdUnlessMostlyMissing ==
    \A c \in Range(columns) :
        lower(c) = "id" =>
            role[c] = (IF MostlyMissing(frame, c) THEN REJECTED ELSE ID)

C3_Witness ==
    \E c \in Range(columns) :
        /\ c # lower(c)
        /\ lower(c) = "id"
        /\ Missing(frame, c) > 0
        /\ role[c] = ID

(* C4 as stated: after set_frame the first target-named column has role    *)
(* Target, every later one has role Rejected, and at most one column has   *)
(* role Target.                                                            *)
C4_FirstTargetIsTarget ==
    /\ \A c \in Range(columns) :
        /\ FirstTarget(c) => role[c] = TARGET
        /\ LaterTarget(c) => role[c] = REJECTED
    /\ Cardinality({c \in Range(columns) : role[c] = TARGET}) <= 1

(* C4 as amended: after set_frame the first target-named column has role   *)
(* Target unless more than half of its entries are missing (then it is     *)
(* Rejected), every later one has role Rejected, and at most one column    *)
(* has role Target.                                                        *)
C4_FirstTargetUnlessMostlyMissing ==
    /\ \A c \in Range(columns) :
        /\ FirstTarget(c) =>
              role[c] = (IF MostlyMissing(frame, c) THEN REJECTED ELSE TARGET)
        /\ LaterTarget(c) => role[c] = REJECTED
    /\ Cardinality({c \in Range(columns) : role[c] = TARGET}) <= 1

C4_Witness ==
    \E c1, c2 \in Range(columns) :
        /\ FirstTarget(c1)
        /\ LaterTarget(c2)
        /\ role[c1] = TARGET
        /\ Missing(frame, c2) = 0
        /\ role[c2] = REJECTED

(* C5: filter(role, type, columns=True) returns the columns whose role is  *)
(* the requested one (any, when omitted) and whose type is the requested   *)
(* one (any, when omitted), each once and in the order of the table.       *)
C5_FilterSelectsMatching ==
    (result.op = "filter" /\ result.args[3]) =>
        LET Match(c) ==
                /\ result.args[1] = None \/ role[c] = result.args[1]
                /\ result.args[2] = None \/ type[c] = result.args[2]
        IN  result.val = SelectSeq(columns, Match)

C5_Witness ==
    /\ result.op = "filter"
    /\ result.args[3]
    /\ result.args[1] # None
    /\ result.args[2] # None
    /\ overrides # <<>>
    /\ Len(columns) = MaxCols
    /\ Len(result.val) = 1
    /\ \E c \in Range(columns) : role[c] = result.args[1] /\ type[c] # result.args[2]

(* C6: get_target, called while no column has role Target, ends with an    *)
(* exception and returns nothing.                                          *)
C6_TargetFailsWithoutTargetColumn ==
    (result.op = "target" /\ \A c \in Range(columns) : role[c] # TARGET) =>
        result.err # ""

C6_Witness ==
    /\ result.op = "target"
    /\ result.err = "IndexError"
    /\ \E c \in Range(columns) : ClassifyRole(assigned)[c] = TARGET

Unsupported(method) == method \notin {"mean", "mode", "knn"}

Selected == IF result.args[1].none THEN columns ELSE result.args[1].list

RECURSIVE Total(_)
Total(values) ==
    IF values = <<>> THEN 0
    ELSE (IF Head(values).k = "num" THEN Head(values).n ELSE 0) + Total(Tail(values))

(* v is the arithmetic mean of the observed entries (whole numbers). *)
IsMean(v, values) ==
    /\ v.k = "num"
    /\ v.d > 0
    /\ v.n * Cardinality({i \in DOMAIN values : values[i] # NA}) = v.d * Total(values)

(* v is an observed value that no other value is observed more often than. *)
IsMostFrequent(v, values) ==
    /\ v # NA
    /\ \E i \in DOMAIN values : values[i] = v
    /\ \A w \in Range(values) \ {NA} :
          Cardinality({i \in DOMAIN values : values[i] = w})
              <= Cardinality({i \in DOMAIN values : values[i] = v})

(* Column c, which had an observed entry, now has each missing entry       *)
(* replaced by one value, the mean (type Number) or a most frequent value  *)
(* (type Category), and every other entry as it was.                       *)
Imputed(c) ==
    LET before == result.val.frame.data[c]
        after == frame.data[c]
    IN  (\E i \in DOMAIN before : before[i] # NA) =>
            /\ \A i \in DOMAIN before : before[i] # NA => after[i] = before[i]
            /\ \A i \in DOMAIN before :
                  before[i] = NA =>
                      IF type[c] = NUMBER THEN IsMean(after[i], before)
                      ELSE IsMostFrequent(after[i], before)
            /\ \A i, j \in DOMAIN before :
                  (before[i] = NA /\ before[j] = NA) => after[i] = after[j]

MeanOrMode == result.op = "fillna" /\ result.args[2] \in {"mean", "mode"} /\ result.err = ""

(* C8 as stated: fillna with mean or mode leaves a selected column of role *)
(* Rejected with all its missing entries, and imputes every other selected *)
(* column.                                                                 *)
C8_RejectedNotImputed ==
    MeanOrMode =>
        \A c \in Range(Selected) :
            IF role[c] = REJECTED THEN frame.data[c] = result.val.frame.data[c]
            ELSE Imputed(c)

(* C8 as amended: fillna with mean or mode, when it returns, has imputed   *)
(* every selected column that had an observed entry, whatever its role, a  *)
(* Rejected one included: each missing entry is replaced by the mean (type *)
(* Number) or a most frequent value (type Category).                       *)
C8_EverySelectedColumnImputed ==
    MeanOrMode => \A c \in Range(Selected) : Imputed(c)

C8_Witness ==
    /\ MeanOrMode
    /\ \E c \in Range(Selected) :
        /\ role[c] = REJECTED
        /\ type[c] = NUMBER
        /\ Missing(result.val.frame, c) > 0
        /\ Missing(result.val.frame, c) < frame.nrows
        /\ Missing(frame, c) = 0

(* The overrides of one Series, applied in the order they were made. *)
RECURSIVE Overridden(_, _, _)
Overridden(series, which, log) ==
    IF log = <<>> THEN series
    ELSE LET o == Head(log)
         IN  Overridden(IF o[1] = which
                        THEN [c \in DOMAIN series |-> IF c = o[2] THEN o[3] ELSE series[c]]
                        ELSE series,
                        which, Tail(log))

(* C9: at every moment role and type are the classification of the table   *)
(* assigned last, with the overrides made since then on top; a derived     *)
(* view or a statistic changes neither.                                    *)
C9_MetadataIsClassificationPlusOverrides ==
    /\ role = Overridden(ClassifyRole(assigned), "role", overrides)
    /\ type = Overridden(ClassifyType(assigned), "type", overrides)

C9_Witness ==
    /\ overrides # <<>>
    /\ role # ClassifyRole(assigned)
    /\ result.op \in {"filter", "inputs", "target", "metadata", "numbers",
                      "categories", "percent_missing", "unique_values"}

(* C10: variance_explained decomposes the Input columns of type Number     *)
(* when cols is omitted, and the columns listed in cols when it is given.  *)
C10_VarianceUsesSelectedColumns ==
    result.op = "variance_explained" =>
        IF result.args.none
        THEN LET InputNumber(c) == role[c] = INPUT /\ type[c] = NUMBER
             IN  result.val = SelectSeq(columns, InputNumber)
        ELSE Range(result.val) = Range(result.args.list)
====
